---- MODULE Spec2Model ----
(***************************************************************************)
(* Model of the ai-site-pipeline HTTP relay.                               *)
(*                                                                         *)
(* Asynchronous variant: src/server.js lines 89-342 (POST /jobs answers    *)
(* "queued" and a detached async task generates two images, asks v0 for a  *)
(* site, updates the in-memory job store and posts a callback).            *)
(* Simulation variant: src/unnamed/part_001 (runJob and its POST /jobs).   *)
(*                                                                         *)
(* Node runs every handler and every continuation to completion: one       *)
(* action of this model is one such turn, from the event that starts it    *)
(* (an HTTP request, a settled promise) to the next await of a pending     *)
(* external call.  The order of the effects inside a turn is kept in the   *)
(* per-job event log `calls`.                                              *)
(*                                                                         *)
(* JavaScript strings whose characters matter (chat ids, which the code    *)
(* trims) are sequences of one-character strings; all other strings are    *)
(* TLA+ strings.                                                           *)
(***************************************************************************)
EXTENDS Integers, Sequences, FiniteSets, TLC

\* ---------------------------------------------------------------- bounds
\* number of whitespace characters padding the sample chat ids
MaxPad == 1
\* number of accepted requests when job ids may repeat
MaxRequests == 2

\* ---------------------------------------------------------------- values
\* a request field that is absent (JavaScript undefined), string-typed
Undefined == "undefined"
\* JavaScript null in a string-typed field
Null == "null"
\* an absent chat id (chat ids are character sequences)
UndefinedChat == <<"undefined">>

Spaces(n) == [i \in 1..n |-> " "]
\* s with whitespace on both sides
Padded(s) == Spaces(MaxPad) \o s \o Spaces(MaxPad)

\* the job ids makeJobId may return
JobIds == {"job_a", "job_b"}

ApiKeys == {"", "k1"}
\* the X-Api-Key header of a request: absent, the configured key, another key
Headers == {Undefined, "k1", "k2"}

\* request bodies with all required fields: no chat_id (create), a padded
\* chat_id (edit), a whitespace-only chat_id
ValidBodies ==
    { [row_id |-> "r1", prompt |-> "p1", callback_url |-> "cb1", chat_id |-> UndefinedChat],
      [row_id |-> "r2", prompt |-> "p2", callback_url |-> "cb2", chat_id |-> Padded(<<"a">>)],
      [row_id |-> "r1", prompt |-> "p1", callback_url |-> "cb2", chat_id |-> Spaces(MaxPad)] }

\* request bodies with a required field absent or empty
InvalidBodies ==
    { [row_id |-> Undefined, prompt |-> "p1", callback_url |-> "cb1", chat_id |-> UndefinedChat],
      [row_id |-> "r1", prompt |-> "", callback_url |-> "cb1", chat_id |-> UndefinedChat],
      [row_id |-> "r2", prompt |-> "p2", callback_url |-> Undefined, chat_id |-> <<"a">>] }

Bodies == ValidBodies \cup InvalidBodies

\* JavaScript truthiness of a string-typed value: x || y takes y iff Falsy(x)
Falsy(x) == x \in {Undefined, Null, ""}
\* the same for chat ids
FalsyChat(c) == c = UndefinedChat \/ c = <<>>

\* a || b on chat ids
OrChat(a, b) == IF FalsyChat(a) THEN b ELSE a
\* a || b on strings
Or(a, b) == IF Falsy(a) THEN b ELSE a

\* String.prototype.trim on a character sequence
RECURSIVE TrimLeft(_)
TrimLeft(s) == IF s # <<>> /\ Head(s) = " " THEN TrimLeft(Tail(s)) ELSE s
RECURSIVE TrimRight(_)
TrimRight(s) ==
    IF s # <<>> /\ s[Len(s)] = " " THEN TrimRight(SubSeq(s, 1, Len(s) - 1)) ELSE s
trim(s) == TrimRight(TrimLeft(s))


\* ------------------------------------------------------- collaborators
\* an Error thrown or rejected by a collaborator (SDK, gateway, fetch)
Throwables == {[message |-> "boom"]}

\* files of a generateText result: mediaType is type/subtype
TextFile      == [mediaType |-> [type |-> "text", subtype |-> "plain"], uint8Array |-> "txt"]
NoBytesImage  == [mediaType |-> [type |-> "image", subtype |-> "png"], uint8Array |-> Undefined]
ImageFile(kind) == [mediaType |-> [type |-> "image", subtype |-> "png"], uint8Array |-> kind]

\* the result.files lists the image model may answer a prompt with
FileLists(kind) ==
    { <<>>, <<TextFile>>, <<NoBytesImage>>, <<ImageFile(kind)>>,
      <<TextFile, ImageFile(kind)>>, <<NoBytesImage, ImageFile(kind)>> }

\* what awaiting generateText may produce
ImageOutcomes(kind) ==
    {[kind |-> "throw", e |-> e] : e \in Throwables}
    \cup {[kind |-> "return", files |-> fs] : fs \in FileLists(kind)}

\* a v0 chat response; NoChat is a null/undefined response
NoChat == [null |-> TRUE]
ChatResponses ==
    [ id      : {UndefinedChat, <<"x">>},
      chatId  : {UndefinedChat, <<"y">>},
      chat_id : {UndefinedChat, <<"z">>},
      demo    : {Undefined, "https://demo"},
      webUrl  : {"", "https://web"},
      url     : {Null, "https://url"} ]

\* what awaiting v0.chats.create / v0.chats.sendMessage may produce
SiteOutcomes ==
    {[kind |-> "throw", e |-> e] : e \in Throwables}
    \cup {[kind |-> "return", chat |-> c] : c \in ChatResponses \cup {NoChat}}

\* what awaiting fetch(callback_url) may produce
FetchOutcomes ==
    {[kind |-> "throw", e |-> e] : e \in Throwables} \cup {[kind |-> "return"]}

\* ---------------------------------------------------------------- state
VARIABLES
    env,     \* process.env as read at start-up: API_KEY, V0_API_KEY, AI_GATEWAY_API_KEY
    jobs,    \* the in-memory job store: job_id -> Job Record
    task,    \* the background task of each job: its position and closure variables
    calls,   \* per job, the effects of its request and task in program order
    last     \* what the latest step handled: an HTTP exchange, or (ep "none") the
             \* outcome that settled an awaited call of a job

vars == <<env, jobs, task, calls, last>>

NoExchange == [ep |-> "none"]

\* job.image_urls before the images exist
NullImageUrls == [null |-> TRUE]

Ev(op, arg) == [op |-> op, arg |-> arg]

Terminal == {"done", "error"}
Statuses == {"queued", "running", "done", "error"}

\* ---------------------------------------------------------- pure helpers
\* requireApiKey failing open: an unconfigured API_KEY lets every request in
requireApiKey_failOpen(hdr) ==
    IF env.API_KEY # "" /\ hdr # env.API_KEY THEN 401 ELSE 0

\* requireApiKey: 0 stands for next()
requireApiKey(hdr) ==
    IF env.API_KEY = "" THEN 500
    ELSE IF hdr # env.API_KEY THEN 401
    ELSE 0

requireApiKeyError(code) ==
    IF code = 500 THEN [error |-> "API_KEY not set on server"]
    ELSE [error |-> "Invalid API key"]

\* makeJobId: "job_" + random + time; the ids it can return, given the
\* ids already issued (unique within one process, spec section 4.1)
makeJobId(issued) == JobIds \ issued

\* String(e?.message || e): String(e) of an Error with no message is "Error"
ErrorString(e) == IF Falsy(e.message) THEN "Error" ELSE e.message

\* (result.files || []).find(f => mediaType starts with "image/" && f.uint8Array)
IsImage(f) == f.mediaType.type = "image" /\ ~Falsy(f.uint8Array)
RECURSIVE FindImage(_)
FindImage(files) ==
    IF files = <<>> THEN <<>>
    ELSE IF IsImage(Head(files)) THEN <<Head(files)>>
    ELSE FindImage(Tail(files))

\* `data:${file.mediaType};base64,${base64}`
DataUrl(file) ==
    "data:" \o file.mediaType.type \o "/" \o file.mediaType.subtype
            \o ";base64," \o "b64(" \o file.uint8Array \o ")"

\* chat?.field
ChatField(chat, f) ==
    IF chat = NoChat
    THEN (IF f \in {"id", "chatId", "chat_id"} THEN UndefinedChat ELSE Undefined)
    ELSE chat[f]

\* String(req.body?.chat_id || "").trim()
incomingChatId(t) == trim(OrChat(t.chat_id, <<>>))

\* chat?.id || incomingChatId || ""
ExtractChatId(chat, incoming) ==
    OrChat(ChatField(chat, "id"), OrChat(incoming, <<>>))

\* the fallbacks read in the reverse order: url, webUrl, demo
ExtractSiteUrl_urlFirst(chat) ==
    Or(ChatField(chat, "url"), Or(ChatField(chat, "webUrl"), Or(ChatField(chat, "demo"), Null)))

\* chat?.demo || chat?.webUrl || chat?.url || null
ExtractSiteUrl(chat) ==
    Or(ChatField(chat, "demo"), Or(ChatField(chat, "webUrl"), Or(ChatField(chat, "url"), Null)))


\* ------------------------------------------------- the background task
\* A frame is what one turn of a job's task works on: the Job Record
\* (job), the closure variables and position of the task (t) and the
\* job's event log (log).

\* the callback sent to one configured URL instead of the request's
postCallback_fixedUrl(F, payload) ==
    [F EXCEPT !.log  = Append(@, Ev("fetch", [url |-> "cb1", payload |-> payload])),
              !.t.pc = "callback"]

\* postCallback, up to its await: the fetch is issued
postCallback(F, payload) ==
    [F EXCEPT !.log  = Append(@, Ev("fetch", [url |-> F.t.callback_url, payload |-> payload])),
              !.t.pc = "callback"]

\* the catch block without its callback
CatchBlock_noCallback(F, e) ==
    [F EXCEPT !.job.status = "error",
              !.job.error  = ErrorString(e),
              !.log        = Append(@, Ev("jobs.set", "error")),
              !.t.pc       = "end"]

\* the error payload with an empty chat_id whatever the record holds
ErrorPayload_dropChatId(F, msg) ==
    [row_id            |-> F.t.row_id,
     job_id            |-> F.t.job_id,
     status            |-> "error",
     chat_id           |-> <<>>,
     site_url          |-> Null,
     hero_image_url    |-> Null,
     contact_image_url |-> Null,
     error             |-> msg]

\* the callback payload of the catch block
ErrorPayload(F, msg) ==
    [row_id            |-> F.t.row_id,
     job_id            |-> F.t.job_id,
     status            |-> "error",
     chat_id           |-> OrChat(F.job.chat_id, <<>>),
     site_url          |-> Null,
     hero_image_url    |-> Null,
     contact_image_url |-> Null,
     error             |-> msg]

\* the catch block also recording the images a failed site step leaves behind
CatchBlock_keepImages(F, e) ==
    LET msg == ErrorString(e)
        F1  == [F EXCEPT !.job.status     = "error",
                         !.job.error      = msg,
                         !.job.image_urls = F.t.image_urls,
                         !.log            = Append(@, Ev("jobs.set", "error"))]
    IN  postCallback(F1, ErrorPayload(F1, msg))

\* the catch block of the task
CatchBlock(F, e) ==
    LET msg == ErrorString(e)
        F1  == [F EXCEPT !.job.status = "error",
                         !.job.error  = msg,
                         !.log        = Append(@, Ev("jobs.set", "error"))]
    IN  postCallback(F1, ErrorPayload(F1, msg))

\* the missing-key throw escaping the task: nothing catches it, the task
\* ends where it is
genOneNanoBananaImage_escapes(F, kind) ==
    IF env.AI_GATEWAY_API_KEY = ""
    THEN [F EXCEPT !.t.pc = "end"]
    ELSE [F EXCEPT !.log  = Append(@, Ev("generateText", kind)),
                   !.t.pc = kind]

\* genOneNanoBananaImage, up to its await; a throw here rejects
\* generateImages and lands in the task's catch block
genOneNanoBananaImage(F, kind) ==
    IF env.AI_GATEWAY_API_KEY = ""
    THEN CatchBlock(F, [message |-> "AI_GATEWAY_API_KEY not set on server"])
    ELSE [F EXCEPT !.log  = Append(@, Ev("generateText", kind)),
                   !.t.pc = kind]

\* genOneNanoBananaImage, after its await: a data URL or a throw
ImageResult(out) ==
    IF out.kind = "throw" THEN [throw |-> TRUE, e |-> out.e]
    ELSE LET f == FindImage(out.files)
         IN  IF f = <<>>
             THEN [throw |-> TRUE, e |-> [message |-> "No image returned in result.files"]]
             ELSE [throw |-> FALSE, url |-> DataUrl(f[1])]

\* the task put off to a later turn (as with setImmediate): the handler
\* turn ends with the record as stored
BackgroundTask_deferred(F) == F

\* the task from its start to the first await
BackgroundTask(F) ==
    LET F1 == [F EXCEPT !.job.status = "running",
                        !.log        = Append(@, Ev("jobs.set", "running"))]
    IN  genOneNanoBananaImage(F1, "hero")

\* the dispatch testing and passing the chat_id untrimmed
DispatchSite_noTrim(F) ==
    LET finalPrompt == [prompt     |-> F.t.prompt,
                        heroUrl    |-> F.t.image_urls.heroUrl,
                        contactUrl |-> F.t.image_urls.contactUrl]
        inc == OrChat(F.t.chat_id, <<>>)
    IN  IF inc # <<>>
        THEN [F EXCEPT !.log  = Append(@, Ev("v0.chats.sendMessage",
                                             [chatId |-> inc, message |-> finalPrompt])),
                       !.t.pc = "site"]
        ELSE [F EXCEPT !.log  = Append(@, Ev("v0.chats.create", [message |-> finalPrompt])),
                       !.t.pc = "site"]

\* the edit/create dispatch
DispatchSite(F) ==
    LET finalPrompt == [prompt     |-> F.t.prompt,
                        heroUrl    |-> F.t.image_urls.heroUrl,
                        contactUrl |-> F.t.image_urls.contactUrl]
        inc == incomingChatId(F.t)
    IN  IF inc # <<>>
        THEN [F EXCEPT !.log  = Append(@, Ev("v0.chats.sendMessage",
                                             [chatId |-> inc, message |-> finalPrompt])),
                       !.t.pc = "site"]
        ELSE [F EXCEPT !.log  = Append(@, Ev("v0.chats.create", [message |-> finalPrompt])),
                       !.t.pc = "site"]

\* the contact image requested whatever became of the hero image
AfterHero_ignoreFailure(F, out) ==
    LET r == ImageResult(out)
    IN  genOneNanoBananaImage(
            [F EXCEPT !.t.heroUrl = IF r.throw THEN Null ELSE r.url], "contact")

\* generateImages resumed by the hero image
AfterHero(F, out) ==
    LET r == ImageResult(out)
    IN  IF r.throw THEN CatchBlock(F, r.e)
        ELSE genOneNanoBananaImage([F EXCEPT !.t.heroUrl = r.url], "contact")

\* a failed contact image ignored: the site is dispatched without it
AfterContact_ignoreFailure(F, out) ==
    LET r == ImageResult(out)
    IN  DispatchSite([F EXCEPT !.t.image_urls =
                         [heroUrl    |-> F.t.heroUrl,
                          contactUrl |-> IF r.throw THEN Null ELSE r.url]])

\* generateImages resumed by the contact image, then the site dispatch
AfterContact(F, out) ==
    LET r == ImageResult(out)
    IN  IF r.throw THEN CatchBlock(F, r.e)
        ELSE DispatchSite([F EXCEPT !.t.image_urls =
                               [heroUrl |-> F.t.heroUrl, contactUrl |-> r.url]])

\* the callback payload of a finished job
DonePayload(F, chat_id, site_url) ==
    [row_id            |-> F.t.row_id,
     job_id            |-> F.t.job_id,
     status            |-> "done",
     chat_id           |-> chat_id,
     site_url          |-> site_url,
     hero_image_url    |-> F.t.image_urls.heroUrl,
     contact_image_url |-> F.t.image_urls.contactUrl,
     error             |-> Null]

\* the task resumed by the v0 call, without the check of site_url
AfterSite_noUrlCheck(F, out) ==
    IF out.kind = "throw" THEN CatchBlock(F, out.e)
    ELSE LET chat_id  == ExtractChatId(out.chat, incomingChatId(F.t))
             site_url == ExtractSiteUrl(out.chat)
             F1 == [F EXCEPT !.job.status     = "done",
                             !.job.chat_id    = chat_id,
                             !.job.site_url   = site_url,
                             !.job.image_urls = F.t.image_urls,
                             !.job.error      = Null,
                             !.log            = Append(@, Ev("jobs.set", "done"))]
         IN  postCallback(F1, DonePayload(F1, chat_id, site_url))

\* the task resumed by the v0 call
AfterSite(F, out) ==
    IF out.kind = "throw" THEN CatchBlock(F, out.e)
    ELSE LET chat_id  == ExtractChatId(out.chat, incomingChatId(F.t))
             site_url == ExtractSiteUrl(out.chat)
         IN  IF Falsy(site_url)
             THEN CatchBlock(F, [message |-> "v0 did not return a demo/webUrl/url"])
             ELSE LET F1 == [F EXCEPT !.job.status     = "done",
                                      !.job.chat_id    = chat_id,
                                      !.job.site_url   = site_url,
                                      !.job.image_urls = F.t.image_urls,
                                      !.job.error      = Null,
                                      !.log            = Append(@, Ev("jobs.set", "done"))]
                  IN  postCallback(F1, DonePayload(F1, chat_id, site_url))

\* postCallback without its try/catch: a failed fetch lands in the task's
\* catch block (as in runJob of the simulation variant)
AfterCallback_rethrow(F, out) ==
    IF out.kind = "throw" THEN CatchBlock(F, out.e)
    ELSE [F EXCEPT !.t.pc = "end"]

\* postCallback resumed by the fetch: a failure is logged, the task ends
AfterCallback(F, out) ==
    IF out.kind = "throw"
    THEN [F EXCEPT !.log  = Append(@, Ev("console.error", "Callback failed:")),
                   !.t.pc = "end"]
    ELSE [F EXCEPT !.t.pc = "end"]

\* ------------------------------------------------------------- actions
Frame(j) == [job |-> jobs[j], t |-> task[j], log |-> calls[j]]

\* a write that also puts the writer's status on every other record (one
\* status shared by all jobs instead of one per record)
Commit_sharedStatus(j, F) ==
    /\ jobs'  = [k \in DOMAIN jobs  \cup {j} |->
                    IF k = j THEN F.job ELSE [jobs[k] EXCEPT !.status = F.job.status]]
    /\ task'  = [k \in DOMAIN task  \cup {j} |-> IF k = j THEN F.t   ELSE task[k]]
    /\ calls' = [k \in DOMAIN calls \cup {j} |-> IF k = j THEN F.log ELSE calls[k]]

\* write a frame back (the task mutates the stored object itself)
Commit(j, F) ==
    /\ jobs'  = [k \in DOMAIN jobs  \cup {j} |-> IF k = j THEN F.job ELSE jobs[k]]
    /\ task'  = [k \in DOMAIN task  \cup {j} |-> IF k = j THEN F.t   ELSE task[k]]
    /\ calls' = [k \in DOMAIN calls \cup {j} |-> IF k = j THEN F.log ELSE calls[k]]

\* the log with the way an awaited call settled noted in it: whether it
\* threw and, for generateText, whether result.files holds an image
Settled(F, call, out) ==
    [F EXCEPT !.log = Append(@, Ev("settled",
        [call  |-> call,
         threw |-> out.kind = "throw",
         image |-> IF call = "generateText" /\ out.kind = "return"
                   THEN \E i \in 1..Len(out.files) : IsImage(out.files[i])
                   ELSE FALSE]))]

\* the required fields of a body, as the handler destructures them
Required(body) ==
    [row_id |-> body.row_id, prompt |-> body.prompt, callback_url |-> body.callback_url]
\* the body of a request whose handler was not reached
Unread == [unread |-> TRUE]

Exchange(ep, hdr, body, code, reply) ==
    [ep |-> ep, hdr |-> hdr, body |-> body, code |-> code, reply |-> reply]

\* the outcome `out` of the awaited `call` resuming the task of job j
Outcome(j, call, out) == [ep |-> "none", job |-> j, call |-> call, out |-> out]

\* the record POST /jobs stores
NewJob(job_id, body) ==
    [status     |-> "queued",
     job_id     |-> job_id,
     row_id     |-> body.row_id,
     chat_id    |-> OrChat(body.chat_id, <<>>),
     site_url   |-> Null,
     image_urls |-> NullImageUrls,
     error      |-> Null]

\* the closure of the background task
NewTask(job_id, body) ==
    [pc |-> "start", job_id |-> job_id, row_id |-> body.row_id, prompt |-> body.prompt,
     callback_url |-> body.callback_url, chat_id |-> body.chat_id,
     heroUrl |-> Undefined, image_urls |-> NullImageUrls]

\* the response sent only once the task has reached its first await
Accept_respondLast(job_id, body) ==
    LET F0 == [job |-> NewJob(job_id, body),
               t   |-> NewTask(job_id, body),
               log |-> << Ev("jobs.set", "queued") >>]
        F1 == BackgroundTask(F0)
    IN  [F1 EXCEPT !.log = Append(@, Ev("res.json", [status |-> "queued", job_id |-> job_id]))]

\* the accepting part of POST /jobs: store, respond, start the task
Accept(job_id, body) ==
    LET F0 == [job |-> NewJob(job_id, body),
               t   |-> NewTask(job_id, body),
               log |-> << Ev("jobs.set", "queued"),
                          Ev("res.json", [status |-> "queued", job_id |-> job_id]) >>]
    IN  BackgroundTask(F0)

\* the checks of the synchronous variant: callback_url is not required
PostJobsValidate_noCallbackCheck(body) ==
    IF Falsy(body.row_id) \/ Falsy(body.prompt) THEN 400
    ELSE IF env.V0_API_KEY = "" THEN 500
    ELSE 0

\* the checks of POST /jobs after requireApiKey: 0 stands for accepted
PostJobsValidate(body) ==
    IF Falsy(body.row_id) \/ Falsy(body.prompt) \/ Falsy(body.callback_url) THEN 400
    ELSE IF env.V0_API_KEY = "" THEN 500
    ELSE 0

PostJobsError(code) ==
    IF code = 400 THEN [error |-> "Missing row_id, prompt, or callback_url"]
    ELSE [error |-> "V0_API_KEY not set on server"]

\* requireApiKey answers the request itself: the handler is not reached
RequireApiKeyRejects(ep, hdr) ==
    LET auth == requireApiKey(hdr) IN
    /\ auth # 0
    /\ last' = Exchange(ep, hdr, Unread, auth, requireApiKeyError(auth))
    /\ UNCHANGED <<env, jobs, task, calls>>

\* POST /jobs, once requireApiKey has called next()
PostJobs(hdr, body) ==
    LET code == PostJobsValidate(body) IN
    /\ requireApiKey(hdr) = 0
    /\ IF code # 0
       THEN /\ last' = Exchange("POST /jobs", hdr, Required(body), code, PostJobsError(code))
            /\ UNCHANGED <<env, jobs, task, calls>>
       ELSE \E job_id \in makeJobId(DOMAIN jobs) :
               /\ Commit(job_id, Accept(job_id, body))
               /\ last' = Exchange("POST /jobs", hdr, Required(body), 200,
                                   [status |-> "queued", job_id |-> job_id])
               /\ UNCHANGED env

\* a poll that no longer finds a record once its job is done or error
GetJob_evictTerminal(hdr, id) ==
    /\ requireApiKey(hdr) = 0
    /\ last' = IF id \notin DOMAIN jobs \/ jobs[id].status \in Terminal
               THEN Exchange("GET /jobs/:job_id", hdr, [job_id |-> id], 404,
                             [status |-> "error", error |-> "Job not found"])
               ELSE Exchange("GET /jobs/:job_id", hdr, [job_id |-> id], 200, jobs[id])
    /\ UNCHANGED <<env, jobs, task, calls>>

\* GET /jobs/:job_id, once requireApiKey has called next()
GetJob(hdr, id) ==
    /\ requireApiKey(hdr) = 0
    /\ last' = IF id \notin DOMAIN jobs
               THEN Exchange("GET /jobs/:job_id", hdr, [job_id |-> id], 404,
                             [status |-> "error", error |-> "Job not found"])
               ELSE Exchange("GET /jobs/:job_id", hdr, [job_id |-> id], 200, jobs[id])
    /\ UNCHANGED <<env, jobs, task, calls>>

\* GET /
GetRoot(hdr) ==
    /\ last' = Exchange("GET /", hdr, Unread, 200, [text |-> "OK"])
    /\ UNCHANGED <<env, jobs, task, calls>>

\* the hero generateText settles
HeroSettle(j, out) ==
    /\ j \in DOMAIN task /\ task[j].pc = "hero"
    /\ Commit(j, AfterHero(Settled(Frame(j), "generateText", out), out))
    /\ last' = Outcome(j, "generateText", out)
    /\ UNCHANGED env

\* the contact generateText settles
ContactSettle(j, out) ==
    /\ j \in DOMAIN task /\ task[j].pc = "contact"
    /\ Commit(j, AfterContact(Settled(Frame(j), "generateText", out), out))
    /\ last' = Outcome(j, "generateText", out)
    /\ UNCHANGED env

\* a v0 call that threw is issued once more before the job gives up
SiteSettle_retry(j, out) ==
    /\ j \in DOMAIN task /\ task[j].pc = "site"
    /\ LET F     == Settled(Frame(j), "v0.chats", out)
           first == ~\E i \in 1..Len(calls[j]) :
                        calls[j][i].op = "settled" /\ calls[j][i].arg.call = "v0.chats"
           call  == CHOOSE e \in {calls[j][i] : i \in 1..Len(calls[j])} :
                        e.op \in {"v0.chats.create", "v0.chats.sendMessage"}
       IN  IF out.kind = "throw" /\ first
           THEN Commit(j, [F EXCEPT !.log = Append(@, call)])
           ELSE Commit(j, AfterSite(F, out))
    /\ last' = Outcome(j, "v0.chats", out)
    /\ UNCHANGED env

\* the v0 call settles
SiteSettle(j, out) ==
    /\ j \in DOMAIN task /\ task[j].pc = "site"
    /\ Commit(j, AfterSite(Settled(Frame(j), "v0.chats", out), out))
    /\ last' = Outcome(j, "v0.chats", out)
    /\ UNCHANGED env

\* a job's end sweeping the store: every job still waiting for a
\* collaborator is given up as error
CallbackSettle_sweep(j, out) ==
    /\ j \in DOMAIN task /\ task[j].pc = "callback"
    /\ LET F == AfterCallback(Settled(Frame(j), "fetch", out), out)
       IN  /\ jobs'  = [k \in DOMAIN jobs |->
                           IF k = j THEN F.job
                           ELSE IF task[k].pc \in {"hero", "contact", "site"}
                                THEN [jobs[k] EXCEPT !.status = "error", !.error = "timeout"]
                                ELSE jobs[k]]
           /\ task'  = [task EXCEPT ![j] = F.t]
           /\ calls' = [calls EXCEPT ![j] = F.log]
    /\ last' = Outcome(j, "fetch", out)
    /\ UNCHANGED env

\* the callback fetch settles
CallbackSettle(j, out) ==
    /\ j \in DOMAIN task /\ task[j].pc = "callback"
    /\ Commit(j, AfterCallback(Settled(Frame(j), "fetch", out), out))
    /\ last' = Outcome(j, "fetch", out)
    /\ UNCHANGED env

EmptyStore == [k \in {} |-> {}]

Init ==
    /\ env \in [API_KEY : ApiKeys, V0_API_KEY : {"", "v0key"}, AI_GATEWAY_API_KEY : {"", "gwkey"}]
    /\ jobs  = EmptyStore
    /\ task  = EmptyStore
    /\ calls = EmptyStore
    /\ last  = NoExchange

\* the endpoints behind requireApiKey
ProtectedEndpoints == {"POST /jobs", "GET /jobs/:job_id"}

Next ==
    \/ \E ep \in ProtectedEndpoints, hdr \in Headers : RequireApiKeyRejects(ep, hdr)
    \/ \E hdr \in Headers, body \in Bodies : PostJobs(hdr, body)
    \/ \E hdr \in Headers, id \in JobIds \cup {"unknown123"} : GetJob(hdr, id)
    \/ \E hdr \in Headers : GetRoot(hdr)
    \/ \E j \in JobIds, out \in ImageOutcomes("hero") : HeroSettle(j, out)
    \/ \E j \in JobIds, out \in ImageOutcomes("contact") : ContactSettle(j, out)
    \/ \E j \in JobIds, out \in SiteOutcomes : SiteSettle(j, out)
    \/ \E j \in JobIds, out \in FetchOutcomes : CallbackSettle(j, out)

Spec == Init /\ [][Next]_vars


\* ------------------------------------------- the task under fairness
\* one outcome of each kind an awaited call can have: a throw, a result
\* without what the task needs, a result with it
LiveImageOutcomes(kind) ==
    { o \in ImageOutcomes(kind) :
        o.kind = "throw" \/ o.files \in {<<>>, <<TextFile, ImageFile(kind)>>} }
LiveSiteOutcomes ==
    { o \in SiteOutcomes :
        \/ o.kind = "throw"
        \/ o.chat = NoChat
        \/ /\ o.chat # NoChat /\ o.chat.chatId = UndefinedChat /\ o.chat.chat_id = UndefinedChat
           /\ o.chat.id = <<"x">> /\ o.chat.webUrl = "" /\ o.chat.url = Null }

NextLive ==
    \/ \E hdr \in Headers, body \in Bodies : PostJobs(hdr, body)
    \/ \E j \in JobIds, out \in LiveImageOutcomes("hero") : HeroSettle(j, out)
    \/ \E j \in JobIds, out \in LiveImageOutcomes("contact") : ContactSettle(j, out)
    \/ \E j \in JobIds, out \in LiveSiteOutcomes : SiteSettle(j, out)
    \/ \E j \in JobIds, out \in FetchOutcomes : CallbackSettle(j, out)

\* every image and site call that is awaited eventually settles, and the
\* continuation of the task then runs (the callback fetch may hang)
Fairness ==
    \A j \in JobIds :
        /\ WF_vars(\E out \in LiveImageOutcomes("hero") : HeroSettle(j, out))
        /\ WF_vars(\E out \in LiveImageOutcomes("contact") : ContactSettle(j, out))
        /\ WF_vars(\E out \in LiveSiteOutcomes : SiteSettle(j, out))

SpecLive == Init /\ [][NextLive]_vars /\ Fairness


\* --------------------------------------------- a collaborator that hangs
\* the job a hung collaborator call belongs to, and the job served meanwhile
HungJob == "job_a"
ServedJob == "job_b"

NextHang ==
    \/ NextLive
    \/ \E hdr \in Headers, id \in JobIds : GetJob(hdr, id)

\* the awaited calls of ServedJob eventually settle; those of HungJob need not
HangFairness ==
    /\ WF_vars(\E out \in LiveImageOutcomes("hero") : HeroSettle(ServedJob, out))
    /\ WF_vars(\E out \in LiveImageOutcomes("contact") : ContactSettle(ServedJob, out))
    /\ WF_vars(\E out \in LiveSiteOutcomes : SiteSettle(ServedJob, out))

SpecHang == Init /\ [][NextHang]_vars /\ HangFairness


\* --------------------------------------- simulation variant (part_001)
\* The same variables hold the state of the simulation server: jobs is
\* its Map, task[j] holds the position of the POST handler's inline task
\* (handler) and of a runJob(j) activation (runJob), calls[j] the effects.

\* the record the simulation POST /jobs stores
SimNewJob(job_id, body) ==
    [job_id       |-> job_id,
     status       |-> "queued",
     row_id       |-> body.row_id,
     prompt       |-> body.prompt,
     callback_url |-> body.callback_url,
     site_url     |-> Null,
     error        |-> Null]

\* `https://example.com/site/${job_id}`
fakeUrl(job_id) == "https://example.com/site/" \o job_id

\* the bodies sent to the simulation server, which reads no chat_id
SimBodies == {b \in Bodies : b.chat_id # Spaces(MaxPad)}

\* POST /jobs of the simulation variant, up to the await of its timer
SimPostJobs(hdr, body) ==
    /\ requireApiKey(hdr) = 0
    /\ IF Falsy(body.row_id) \/ Falsy(body.prompt) \/ Falsy(body.callback_url)
       THEN /\ last' = Exchange("POST /jobs", hdr, Required(body), 400,
                                [error |-> "Missing row_id, prompt, or callback_url"])
            /\ UNCHANGED <<env, jobs, task, calls>>
       ELSE \E job_id \in makeJobId(DOMAIN jobs) :
               /\ Commit(job_id, [job |-> SimNewJob(job_id, body),
                                  t   |-> [handler |-> "timer", runJob |-> "idle"],
                                  log |-> <<Ev("jobs.set", "queued")>>])
               /\ last' = NoExchange
               /\ UNCHANGED env

\* the handler's inline task after its 10 s timer: done, then the response
SimHandlerTimer(j) ==
    /\ j \in DOMAIN task /\ task[j].handler = "timer"
    /\ LET F  == Frame(j)
           F1 == [F EXCEPT !.job.status   = "done",
                           !.job.site_url = fakeUrl(j),
                           !.log          = Append(@, Ev("jobs.set", "done")),
                           !.t.handler    = "responded"]
       IN  /\ Commit(j, F1)
           /\ last' = Exchange("POST /jobs", env.API_KEY, Required(F.job), 200,
                               [job_id |-> j, status |-> "done",
                                site_url |-> fakeUrl(j), error |-> Null])
    /\ UNCHANGED env

\* the fetch runJob issues: the callback with the given outcome
RunJobFetch(F, status, site_url, error) ==
    [F EXCEPT !.log = Append(@, Ev("fetch",
        [url     |-> F.job.callback_url,
         payload |-> [row_id |-> F.job.row_id, job_id |-> F.job.job_id, status |-> status,
                      site_url |-> site_url, error |-> error]]))]

\* runJob(job_id), up to the await of its timer
RunJobStart(job_id) ==
    /\ IF job_id \notin DOMAIN jobs
       THEN UNCHANGED <<jobs, task, calls>>
       ELSE /\ task[job_id].runJob = "idle"
            /\ Commit(job_id, [Frame(job_id) EXCEPT
                                  !.job.status = "running",
                                  !.log        = Append(@, Ev("jobs.set", "running")),
                                  !.t.runJob   = "timer"])
    /\ last' = NoExchange
    /\ UNCHANGED env

\* runJob after its timer: done, then the callback fetch is issued
RunJobTimer(j) ==
    /\ j \in DOMAIN task /\ task[j].runJob = "timer"
    /\ LET F1 == [Frame(j) EXCEPT !.job.status   = "done",
                                  !.job.site_url = fakeUrl(j),
                                  !.log          = Append(@, Ev("jobs.set", "done")),
                                  !.t.runJob     = "callback"]
       IN  Commit(j, RunJobFetch(F1, "done", fakeUrl(j), Null))
    /\ last' = NoExchange
    /\ UNCHANGED env

\* runJob resumed by its callback fetch: a rejection lands in the catch
\* block, which sets the job to error and fetches again
RunJobAfterFetch(F, out) ==
    IF out.kind = "throw"
    THEN LET F1 == [F EXCEPT !.job.status = "error",
                             !.job.error  = ErrorString(out.e),
                             !.log        = Append(@, Ev("jobs.set", "error")),
                             !.t.runJob   = "callback2"]
         IN  RunJobFetch(F1, "error", Null, F1.job.error)
    ELSE [F EXCEPT !.t.runJob = "end"]

RunJobCallbackSettle(j, out) ==
    /\ j \in DOMAIN task /\ task[j].runJob = "callback"
    /\ Commit(j, RunJobAfterFetch(Settled(Frame(j), "fetch", out), out))
    /\ last' = NoExchange
    /\ UNCHANGED env

\* the fetch of the catch block settles: catch (_) {}
RunJobCallback2Settle(j, out) ==
    /\ j \in DOMAIN task /\ task[j].runJob = "callback2"
    /\ Commit(j, [Settled(Frame(j), "fetch", out) EXCEPT !.t.runJob = "end"])
    /\ last' = NoExchange
    /\ UNCHANGED env

NextSim ==
    \/ \E hdr \in Headers : RequireApiKeyRejects("POST /jobs", hdr)
    \/ \E hdr \in Headers, body \in SimBodies : SimPostJobs(hdr, body)
    \/ \E hdr \in Headers : GetRoot(hdr)
    \/ \E j \in JobIds : SimHandlerTimer(j)
    \/ \E j \in JobIds \cup {"unknown123"} : RunJobStart(j)
    \/ \E j \in JobIds : RunJobTimer(j)
    \/ \E j \in JobIds, out \in FetchOutcomes : RunJobCallbackSettle(j, out)
    \/ \E j \in JobIds, out \in FetchOutcomes : RunJobCallback2Settle(j, out)

SpecSim == Init /\ [][NextSim]_vars


\* ------------------------------------ repeated job ids (src/server.js)
\* makeJobId keeps no memory of the ids it returned: the random and the time
\* component can repeat.  Here it may return any id, tasks are numbered by
\* request (task[r], calls[r]), each task holds its own job object (the one
\* jobs.get returned at its start) next to its closure, and jobs is the Map:
\* jobs.set(job_id, job) stores the object of whoever calls it.

\* the ids makeJobId may return when nothing keeps them apart
makeJobIdAny == JobIds

\* the frame of the task of request r
RequestFrame(r) == [job |-> task[r].job, t |-> task[r].t, log |-> calls[r]]

\* write back the frame of request r; wrote tells whether the turn called
\* jobs.set(job_id, job)
RequestCommit(r, F, wrote) ==
    /\ task'  = [k \in DOMAIN task \cup {r} |->
                    IF k = r THEN [t |-> F.t, job |-> F.job] ELSE task[k]]
    /\ calls' = [k \in DOMAIN calls \cup {r} |-> IF k = r THEN F.log ELSE calls[k]]
    /\ jobs'  = IF wrote
                THEN [k \in DOMAIN jobs \cup {F.t.job_id} |->
                         IF k = F.t.job_id THEN F.job ELSE jobs[k]]
                ELSE jobs

\* POST /jobs: jobs.set stores the new record under whatever id was made
CollidePostJobs(hdr, body) ==
    LET code == PostJobsValidate(body)
        r    == Cardinality(DOMAIN task) + 1
    IN  /\ requireApiKey(hdr) = 0
        /\ r <= MaxRequests
        /\ IF code # 0
           THEN /\ last' = Exchange("POST /jobs", hdr, Required(body), code, PostJobsError(code))
                /\ UNCHANGED <<env, jobs, task, calls>>
           ELSE \E job_id \in makeJobIdAny :
                   /\ RequestCommit(r, Accept(job_id, body), TRUE)
                   /\ last' = Exchange("POST /jobs", hdr, Required(body), 200,
                                       [status |-> "queued", job_id |-> job_id])
                   /\ UNCHANGED env

\* the task of request r resumed into frame F: it calls jobs.set exactly
\* in the turns that change its job object (lines 285-290, 304-306)
RequestResume(r, F) ==
    /\ RequestCommit(r, F, F.job # task[r].job)
    /\ last' = NoExchange
    /\ UNCHANGED env

CollideHeroSettle(r, out) ==
    /\ r \in DOMAIN task /\ task[r].t.pc = "hero"
    /\ RequestResume(r, AfterHero(Settled(RequestFrame(r), "generateText", out), out))

CollideContactSettle(r, out) ==
    /\ r \in DOMAIN task /\ task[r].t.pc = "contact"
    /\ RequestResume(r, AfterContact(Settled(RequestFrame(r), "generateText", out), out))

CollideSiteSettle(r, out) ==
    /\ r \in DOMAIN task /\ task[r].t.pc = "site"
    /\ RequestResume(r, AfterSite(Settled(RequestFrame(r), "v0.chats", out), out))

CollideCallbackSettle(r, out) ==
    /\ r \in DOMAIN task /\ task[r].t.pc = "callback"
    /\ RequestResume(r, AfterCallback(Settled(RequestFrame(r), "fetch", out), out))

NextCollide ==
    \/ \E hdr \in Headers, body \in Bodies : CollidePostJobs(hdr, body)
    \/ \E r \in 1..MaxRequests, out \in ImageOutcomes("hero") : CollideHeroSettle(r, out)
    \/ \E r \in 1..MaxRequests, out \in ImageOutcomes("contact") : CollideContactSettle(r, out)
    \/ \E r \in 1..MaxRequests, out \in SiteOutcomes : CollideSiteSettle(r, out)
    \/ \E r \in 1..MaxRequests, out \in FetchOutcomes : CollideCallbackSettle(r, out)

SpecCollide == Init /\ [][NextCollide]_vars


\* ============================================================ properties
\* the events of a log with a given operation
Ops(log, op) == SelectSeq(log, LAMBDA e : e.op = op)
Count(log, op) == Len(Ops(log, op))
\* the statuses written to the store for a job, in order
StatusWrites(log) == LET w == Ops(log, "jobs.set") IN [i \in 1..Len(w) |-> w[i].arg]
\* the position of the first event with a given operation (0 if none)
FirstPos(log, op) ==
    IF Count(log, op) = 0 THEN 0
    ELSE CHOOSE i \in 1..Len(log) :
            log[i].op = op /\ \A k \in 1..(i - 1) : log[k].op # op

AllowedTransitions ==
    {<<"queued", "running">>, <<"running", "done">>, <<"running", "error">>}

SiteCalls == {"v0.chats.create", "v0.chats.sendMessage"}
CollaboratorCalls == {"generateText"} \cup SiteCalls

\* the image step of job j failed: a generateText threw or returned no
\* image, or the image credential is missing
ImageStepFailed(j) ==
    \/ env.AI_GATEWAY_API_KEY = ""
    \/ \E i \in 1..Len(calls[j]) :
          /\ calls[j][i].op = "settled"
          /\ calls[j][i].arg.call = "generateText"
          /\ (calls[j][i].arg.threw \/ ~calls[j][i].arg.image)

\* the image step of job j succeeded: both generateText calls returned an image
ImageStepSucceeded(j) ==
    /\ ~ImageStepFailed(j)
    /\ Cardinality({i \in 1..Len(calls[j]) :
                       /\ calls[j][i].op = "settled"
                       /\ calls[j][i].arg.call = "generateText"
                       /\ calls[j][i].arg.image}) = 2

\* the latest step handled a POST /jobs that passed requireApiKey
PostReached(e) == e.ep = "POST /jobs" /\ e.body # Unread
MissingRequired(b) == Falsy(b.row_id) \/ Falsy(b.prompt) \/ Falsy(b.callback_url)

StoreUnchanged == jobs' = jobs /\ task' = task /\ calls' = calls

\* ---------------------------------------------------------------- C1
C1_StatusInv ==
    \A j \in DOMAIN jobs :
        LET w == StatusWrites(calls[j]) IN
        /\ jobs[j].status \in Statuses
        /\ Len(w) >= 1 /\ w[1] = "queued" /\ w[Len(w)] = jobs[j].status
        /\ \A i \in 1..(Len(w) - 1) : <<w[i], w[i + 1]>> \in AllowedTransitions

C1_Step ==
    \A j \in DOMAIN jobs :
        /\ j \in DOMAIN jobs'
        /\ jobs[j].status \in Terminal => jobs'[j] = jobs[j]
        /\ jobs'[j].status # jobs[j].status =>
               <<jobs[j].status, jobs'[j].status>> \in AllowedTransitions

\* C1: every stored status is one of queued, running, done, error; the
\* statuses written for a job start with queued and follow only
\* queued -> running, running -> done, running -> error; and once a record
\* is done or error no step (the callback settling included) changes any
\* of its fields.
C1_StatusLifecycle == []C1_StatusInv /\ [][C1_Step]_vars

C1_Witness ==
    \E j, k \in DOMAIN jobs :
        /\ j # k
        /\ jobs[j].status = "done" /\ task[j].pc = "end"
        /\ Count(calls[j], "console.error") = 1
        /\ jobs[k].status = "error" /\ task[k].pc = "end"

\* ---------------------------------------------------------------- C2
\* C2: in every state of every record, site_url is non-null iff the status
\* is done and error is non-null iff the status is error.
C2_FieldsMatchStatus ==
    \A j \in DOMAIN jobs :
        /\ (jobs[j].site_url \notin {Null, Undefined}) <=> (jobs[j].status = "done")
        /\ (jobs[j].error \notin {Null, Undefined}) <=> (jobs[j].status = "error")

C2_Witness ==
    \E j, k \in DOMAIN jobs :
        /\ jobs[j].status = "done" /\ jobs[j].site_url = "https://url"
        /\ jobs[k].status = "error"
        /\ jobs[k].error = "v0 did not return a demo/webUrl/url"

\* ---------------------------------------------------------------- C3
C3_Inv ==
    \A j \in DOMAIN jobs :
        LET log == calls[j]
            pf  == FirstPos(log, "fetch")
        IN  IF jobs[j].status \in Terminal
            THEN /\ Count(log, "fetch") = 1
                 /\ log[pf].arg.url = task[j].callback_url
                 /\ \E i \in 1..(pf - 1) :
                       log[i].op = "jobs.set" /\ log[i].arg = jobs[j].status
                 /\ \A i \in (pf + 1)..Len(log) : log[i].op \in {"settled", "console.error"}
            ELSE Count(log, "fetch") = 0

C3_Step ==
    \A j \in DOMAIN jobs :
        task[j].pc = "end" =>
            /\ j \in DOMAIN jobs'
            /\ jobs'[j] = jobs[j] /\ task'[j] = task[j] /\ calls'[j] = calls[j]

\* C3: a job that is done or error has had exactly one callback fetch
\* issued, to its callback_url and after the terminal status was written,
\* also when the delivery fails; nothing but the settling of that fetch
\* follows it, and a task that has ended acts no more.
C3_CallbackExactlyOnce == []C3_Inv /\ [][C3_Step]_vars

C3_Witness ==
    \E j \in DOMAIN jobs :
        /\ jobs[j].status = "error" /\ task[j].pc = "end"
        /\ Count(calls[j], "console.error") = 1
        /\ Count(calls[j], "fetch") = 1

\* ---------------------------------------------------------------- C5
\* C5: if the image step of a job failed (a generateText threw or returned
\* no image, or the image credential is missing), no v0.chats.create and
\* no v0.chats.sendMessage is ever issued for the job.
C5_NoSiteCallAfterImageFailure ==
    \A j \in DOMAIN jobs :
        ImageStepFailed(j) =>
            \A i \in 1..Len(calls[j]) : calls[j][i].op \notin SiteCalls

C5_Witness ==
    \E j \in DOMAIN jobs :
        /\ env.AI_GATEWAY_API_KEY # ""
        /\ ImageStepFailed(j)
        /\ Count(calls[j], "generateText") = 2
        /\ jobs[j].error = "No image returned in result.files"
        /\ task[j].pc = "end"

\* ---------------------------------------------------------------- C6
\* C6 as stated: after a successful image step, a non-empty chat_id gives
\* exactly one sendMessage scoped to that chat_id and no create; an absent
\* or empty chat_id gives exactly one create and no sendMessage.
C6_Original ==
    \A j \in DOMAIN jobs :
        ImageStepSucceeded(j) =>
            LET c == task[j].chat_id
                sends == Ops(calls[j], "v0.chats.sendMessage")
            IN  IF ~FalsyChat(c)
                THEN /\ Len(sends) = 1 /\ sends[1].arg.chatId = c
                     /\ Count(calls[j], "v0.chats.create") = 0
                ELSE /\ Count(calls[j], "v0.chats.create") = 1
                     /\ Len(sends) = 0

\* C6 amended: after a successful image step, a chat_id that is non-empty
\* once its surrounding whitespace is trimmed gives exactly one sendMessage
\* scoped to the trimmed chat_id and no create; an absent, empty or
\* whitespace-only chat_id gives exactly one create and no sendMessage.
C6_EditOrCreate ==
    \A j \in DOMAIN jobs :
        ImageStepSucceeded(j) =>
            LET c == IF task[j].chat_id = UndefinedChat THEN <<>> ELSE trim(task[j].chat_id)
                sends == Ops(calls[j], "v0.chats.sendMessage")
            IN  IF c # <<>>
                THEN /\ Len(sends) = 1 /\ sends[1].arg.chatId = c
                     /\ Count(calls[j], "v0.chats.create") = 0
                ELSE /\ Count(calls[j], "v0.chats.create") = 1
                     /\ Len(sends) = 0

C6_Witness ==
    \E j, k \in DOMAIN jobs :
        /\ ImageStepSucceeded(j) /\ task[j].chat_id = Spaces(MaxPad)
        /\ Count(calls[j], "v0.chats.create") = 1
        /\ ImageStepSucceeded(k) /\ task[k].chat_id = Padded(<<"a">>)
        /\ Count(calls[k], "v0.chats.sendMessage") = 1

\* ---------------------------------------------------------------- C7
\* C7: every accepted POST /jobs is answered {status: "queued", job_id}
\* exactly once, before any image or site call of its job is issued (so
\* before the site call completes), and that response is the same whatever
\* the job's outcome.
C7_RespondsBeforeCollaborators ==
    /\ \A j \in DOMAIN jobs :
          LET log == calls[j]
              pr  == FirstPos(log, "res.json")
          IN  /\ Count(log, "res.json") = 1
              /\ log[pr].arg = [status |-> "queued", job_id |-> j]
              /\ \A i \in 1..Len(log) : log[i].op \in CollaboratorCalls => pr < i
    /\ (last.ep = "POST /jobs" /\ last.code = 200) =>
          /\ last.reply.job_id \in DOMAIN jobs
          /\ last.reply = [status |-> "queued", job_id |-> last.reply.job_id]

C7_Witness ==
    \E j, k \in DOMAIN jobs :
        /\ task[j].pc = "site"
        /\ jobs[k].status = "done"
        /\ Count(calls[j], "res.json") = 1 /\ Count(calls[k], "res.json") = 1

\* ---------------------------------------------------------------- C8
\* C8 as stated: with V0_API_KEY or AI_GATEWAY_API_KEY unset, a POST /jobs
\* that passed authentication with all required fields is answered 5xx,
\* and no Job Record is ever created.
C8_Original ==
    (env.V0_API_KEY = "" \/ env.AI_GATEWAY_API_KEY = "") =>
        /\ DOMAIN jobs = {}
        /\ (PostReached(last) /\ ~MissingRequired(last.body)) => last.code \in 500..599

\* ---------------------------------------------------------------- C9
C9_Step ==
    (PostReached(last') /\ MissingRequired(last'.body)) => StoreUnchanged

\* C9: a POST /jobs that reaches the handler with row_id, prompt or
\* callback_url missing or empty is answered 400, and the step leaves the
\* store, the tasks and the calls as they were: no record, no collaborator
\* call, no callback.
C9_MissingFieldRejected ==
    /\ []((PostReached(last) /\ MissingRequired(last.body)) =>
              /\ last.code = 400
              /\ last.reply = [error |-> "Missing row_id, prompt, or callback_url"])
    /\ [][C9_Step]_vars

C9_Witness ==
    /\ PostReached(last) /\ Falsy(last.body.callback_url)
    /\ ~Falsy(last.body.row_id) /\ ~Falsy(last.body.prompt)
    /\ last.code = 400
    /\ DOMAIN jobs # {}

\* --------------------------------------------------------------- C10
C10_Inv ==
    /\ last.ep \in ProtectedEndpoints =>
          /\ env.API_KEY = "" =>
                 /\ last.code = 500 /\ last.body = Unread
                 /\ last.reply = [error |-> "API_KEY not set on server"]
          /\ (env.API_KEY # "" /\ last.hdr # env.API_KEY) =>
                 /\ last.code = 401 /\ last.body = Unread
                 /\ last.reply = [error |-> "Invalid API key"]
    /\ env.API_KEY = "" => (DOMAIN jobs = {} /\ DOMAIN calls = {})
    /\ (last.ep # "none" /\ last.hdr # env.API_KEY /\ last.code = 200) => last.ep = "GET /"

C10_Step ==
    (last'.ep \in ProtectedEndpoints /\ last'.hdr # env.API_KEY) => StoreUnchanged

\* C10: with API_KEY unset every POST /jobs and GET /jobs/:job_id is
\* answered 500 whatever the header; with API_KEY set and a different (or
\* no) X-Api-Key header it is answered 401; in both cases the handler is
\* not reached, the reply holds only the error, and no record is created
\* and no call issued.  Only GET / answers 200 without the header.
C10_FailClosedAuth == []C10_Inv /\ [][C10_Step]_vars

C10_Witness ==
    /\ env.API_KEY # ""
    /\ last.ep = "GET /jobs/:job_id" /\ last.hdr = Undefined
    /\ last.code = 401
    /\ DOMAIN jobs # {}

\* ---------------------------------------------------------------- C4
\* C4: in runJob, when the callback fetch issued after the job was set to
\* done is rejected, the job stays done with error null and no second
\* callback is attempted.
C4_CallbackFailureKeepsDone ==
    \A j \in DOMAIN jobs :
        LET s == Ops(calls[j], "settled") IN
        (Len(s) >= 1 /\ s[1].arg.call = "fetch" /\ s[1].arg.threw) =>
            /\ jobs[j].status = "done"
            /\ jobs[j].error = Null
            /\ Count(calls[j], "fetch") = 1

\* --------------------------------------------------------------- C11
\* the job ids returned by accepted POST /jobs requests so far
ReturnedIds ==
    UNION { {calls[j][i].arg.job_id :
                i \in {i \in 1..Len(calls[j]) : calls[j][i].op = "res.json"}} :
            j \in DOMAIN calls }

\* the latest step handled a GET /jobs/:job_id that passed requireApiKey
PollReached(e) == e.ep = "GET /jobs/:job_id" /\ e.body # Unread

C11_Inv ==
    /\ DOMAIN jobs = ReturnedIds
    /\ PollReached(last) =>
          IF last.body.job_id \in ReturnedIds
          THEN last.code = 200 /\ last.reply = jobs[last.body.job_id]
          ELSE /\ last.code = 404
               /\ last.reply = [status |-> "error", error |-> "Job not found"]

C11_Step == DOMAIN jobs \subseteq DOMAIN jobs'

\* C11: the stored job_ids are exactly the job_ids returned by accepted
\* POST /jobs requests and no step removes one; a poll that passes
\* requireApiKey is answered 404 "Job not found" for a job_id never
\* returned, and 200 with the job's current record for a returned one,
\* whatever the job's status.
C11_PollingNeverLosesJob == []C11_Inv /\ [][C11_Step]_vars

C11_Witness ==
    /\ PollReached(last) /\ last.code = 200
    /\ last.reply.status = "error"
    /\ \E k \in DOMAIN jobs : k # last.body.job_id /\ jobs[k].status = "done"

\* --------------------------------------------------------------- C12
\* the latest step accepted a POST /jobs
Accepted(e) == PostReached(e) /\ e.code = 200

C12_Inv ==
    \A j \in DOMAIN jobs :
        /\ jobs[j].job_id = j /\ jobs[j].row_id = task[j].row_id
        /\ \A i \in 1..Len(calls[j]) :
              calls[j][i].op = "fetch" =>
                  /\ calls[j][i].arg.url = task[j].callback_url
                  /\ calls[j][i].arg.payload.row_id = task[j].row_id
                  /\ calls[j][i].arg.payload.job_id = j
                  /\ calls[j][i].arg.payload.status \in Terminal

C12_Step ==
    /\ Accepted(last') =>
          LET j == last'.reply.job_id IN
          /\ j \notin DOMAIN jobs /\ j \in DOMAIN jobs'
          /\ task'[j].row_id = last'.body.row_id
          /\ task'[j].callback_url = last'.body.callback_url
    /\ \A j \in DOMAIN jobs :
          /\ task'[j].row_id = task[j].row_id
          /\ task'[j].callback_url = task[j].callback_url
          /\ task'[j].job_id = task[j].job_id

\* C12: the task of a job keeps, unchanged for its whole life, the row_id
\* and callback_url of the request that was answered with its job_id; every
\* callback of the job, done or error, is sent to that callback_url and
\* carries that row_id and that job_id, whatever the other job does in
\* between.
C12_CallbackMatchesRequest == []C12_Inv /\ [][C12_Step]_vars

C12_Witness ==
    \E j, k \in DOMAIN jobs :
        /\ task[j].row_id # task[k].row_id /\ task[j].callback_url # task[k].callback_url
        /\ jobs[j].status = "done" /\ Count(calls[j], "fetch") = 1
        /\ jobs[k].status = "error" /\ Count(calls[k], "fetch") = 1
        /\ Count(calls[k], "generateText") = 2

\* --------------------------------------------------------------- C13
\* the texts around which a tagged error message could be built
Affixes ==
    LET texts == {"boom", "Error", "No image returned in result.files",
                  "v0 did not return a demo/webUrl/url",
                  "AI_GATEWAY_API_KEY not set on server"}
    IN  {"", " failed", " failed: "} \cup {": " \o m : m \in texts}
           \cup {m \o " (" : m \in texts} \cup {")", "[", "] "}
           \cup {"] " \o m : m \in texts}

\* msg mentions tag: it is tag between two of these texts
Mentions(msg, tag) == \E pre, post \in Affixes : msg = pre \o tag \o post

\* the callback payloads of a job
Payloads(j) == LET f == Ops(calls[j], "fetch") IN {f[i].arg.payload : i \in 1..Len(f)}

\* C13 as stated: the error of a job whose image step failed mentions
\* "image step", the error of a job that failed after a successful image
\* step mentions "site step", in the record and in the callback, which has
\* status "error" and site_url null.
C13_Original ==
    \A j \in DOMAIN jobs :
        jobs[j].status = "error" =>
            LET tag == IF ImageStepFailed(j) THEN "image step" ELSE "site step" IN
            /\ Mentions(jobs[j].error, tag)
            /\ \A p \in Payloads(j) :
                  Mentions(p.error, tag) /\ p.status = "error" /\ p.site_url = Null

\* --------------------------------------------------------------- C14
\* the latest step resumed job j with the outcome of its `call`
Resumed(j, call) == last.ep = "none" /\ last # NoExchange /\ last.job = j /\ last.call = call

\* the hero/contact image URLs of a record (both null while image_urls is null)
RecordImageUrl(job, k) == IF job.image_urls = NullImageUrls THEN Null ELSE job.image_urls[k]

\* C14: a job that the site call's return has just set to done holds the
\* chat_id and site_url extracted from that response and, as image_urls, the
\* data URLs of the two generated images; and for every job that is done or
\* error, the callback payload's status, chat_id, site_url, hero and contact
\* image URLs and error equal the fields of the stored record.
C14_DoneAndPayloadMatchRecord ==
    \A j \in DOMAIN jobs :
        /\ (Resumed(j, "v0.chats") /\ jobs[j].status = "done") =>
              /\ jobs[j].chat_id = ExtractChatId(last.out.chat, incomingChatId(task[j]))
              /\ jobs[j].site_url = ExtractSiteUrl(last.out.chat)
              /\ jobs[j].image_urls = [heroUrl    |-> "data:image/png;base64,b64(hero)",
                                       contactUrl |-> "data:image/png;base64,b64(contact)"]
              /\ jobs[j].error = Null
        /\ jobs[j].status \in Terminal =>
              /\ Payloads(j) # {}
              /\ \A p \in Payloads(j) :
                    /\ p.status = jobs[j].status
                    /\ p.chat_id = jobs[j].chat_id
                    /\ p.site_url = jobs[j].site_url
                    /\ p.hero_image_url = RecordImageUrl(jobs[j], "heroUrl")
                    /\ p.contact_image_url = RecordImageUrl(jobs[j], "contactUrl")
                    /\ p.error = jobs[j].error

C14_Witness ==
    \E j, k \in DOMAIN jobs :
        /\ Resumed(j, "v0.chats") /\ jobs[j].status = "done"
        /\ jobs[j].chat_id = <<"x">> /\ jobs[j].site_url = "https://demo"
        /\ jobs[k].status = "error" /\ jobs[k].chat_id = Padded(<<"a">>)
        /\ Count(calls[k], "fetch") = 1

\* --------------------------------------------------------------- C15
\* C15 as stated: the chat_id recorded when the site call has returned and
\* the job is done is the first non-empty of the response's id, chatId and
\* chat_id, and otherwise the chat_id the caller supplied (as sent or
\* trimmed; empty if none).
C15_Original ==
    \A j \in DOMAIN jobs :
        (Resumed(j, "v0.chats") /\ jobs[j].status = "done") =>
            LET c == last.out.chat IN
            IF ~FalsyChat(c.id) THEN jobs[j].chat_id = c.id
            ELSE IF ~FalsyChat(c.chatId) THEN jobs[j].chat_id = c.chatId
            ELSE IF ~FalsyChat(c.chat_id) THEN jobs[j].chat_id = c.chat_id
            ELSE jobs[j].chat_id \in {incomingChatId(task[j]), OrChat(task[j].chat_id, <<>>)}

\* --------------------------------------------------------------- C16
C16_Inv ==
    /\ \A r1, r2 \in DOMAIN task : r1 # r2 => task[r1].t.job_id # task[r2].t.job_id
    /\ DOMAIN jobs = {task[r].t.job_id : r \in DOMAIN task}

C16_Step ==
    DOMAIN task' # DOMAIN task =>
        \A id \in DOMAIN jobs : jobs'[id] = jobs[id]

\* C16 as stated: the accepted requests have pairwise different job_ids,
\* the store holds one record per issued job_id, and the step that accepts
\* a request leaves every record already in the store as it was.
C16_Original == []C16_Inv /\ [][C16_Step]_vars

\* --------------------------------------------------------------- C17
\* a response field holding a non-empty string
NonEmpty(x) == x \notin {Undefined, Null, ""}

\* the site call of job j has returned (settled without throwing)
SiteReturned(j) ==
    \E i \in 1..Len(calls[j]) :
        /\ calls[j][i].op = "settled"
        /\ calls[j][i].arg.call = "v0.chats" /\ ~calls[j][i].arg.threw

\* C17: when the site call settles, the job is done exactly if the call
\* returned a response with demo, webUrl or url non-empty, its site_url
\* then being the first non-empty of the three in that order, and is error
\* with a null site_url otherwise (a throw, a null response, or none of the
\* three); and a job is done only if its image step succeeded and its site
\* call returned.
C17_DoneIffSiteUrl ==
    \A j \in DOMAIN jobs :
        /\ Resumed(j, "v0.chats") =>
              LET out == last.out
                  has == /\ out.kind = "return" /\ out.chat # NoChat
                         /\ (NonEmpty(out.chat.demo) \/ NonEmpty(out.chat.webUrl)
                                \/ NonEmpty(out.chat.url))
              IN  IF has
                  THEN /\ jobs[j].status = "done"
                       /\ jobs[j].site_url =
                             IF NonEmpty(out.chat.demo) THEN out.chat.demo
                             ELSE IF NonEmpty(out.chat.webUrl) THEN out.chat.webUrl
                             ELSE out.chat.url
                  ELSE jobs[j].status = "error" /\ jobs[j].site_url = Null
        /\ jobs[j].status = "done" =>
              /\ ImageStepSucceeded(j) /\ SiteReturned(j)
              /\ NonEmpty(jobs[j].site_url)

C17_Witness ==
    \E j, k \in DOMAIN jobs :
        /\ Resumed(j, "v0.chats") /\ jobs[j].status = "done"
        /\ last.out.chat.demo = Undefined /\ last.out.chat.url = "https://url"
        /\ jobs[j].site_url = "https://web"
        /\ jobs[k].status = "error" /\ SiteReturned(k)

\* --------------------------------------------------------------- C18
\* the place of an event in the order of one job (0: not one of the six)
Rank(e) ==
    IF e.op = "jobs.set" /\ e.arg = "running" THEN 1
    ELSE IF e.op = "generateText" /\ e.arg = "hero" THEN 2
    ELSE IF e.op = "generateText" /\ e.arg = "contact" THEN 3
    ELSE IF e.op \in SiteCalls THEN 4
    ELSE IF e.op = "jobs.set" /\ e.arg \in Terminal THEN 5
    ELSE IF e.op = "fetch" THEN 6
    ELSE 0

\* the number of awaited calls of a kind that succeeded before position i
\* (generateText: returned an image; v0.chats, fetch: did not throw)
SucceededBefore(log, i, call) ==
    Cardinality({k \in 1..(i - 1) :
        /\ log[k].op = "settled" /\ log[k].arg.call = call
        /\ ~log[k].arg.threw
        /\ (call = "generateText" => log[k].arg.image)})

\* C18: in the log of every job the six events (running, hero request,
\* contact request, site call, terminal status, callback) occur each at
\* most once and in that order; the hero request follows running, the
\* contact request follows a hero image that was returned, the site call
\* follows two returned images, done follows a site call that returned,
\* the callback follows the terminal status; and a done job has had all
\* six.
C18_StepOrder ==
    \A j \in DOMAIN jobs :
        LET log    == calls[j]
            R      == [i \in 1..Len(log) |-> Rank(log[i])]
            ranked == SelectSeq(R, LAMBDA r : r > 0)
        IN  /\ \A i \in 1..(Len(ranked) - 1) : ranked[i] < ranked[i + 1]
            /\ ranked # <<>> => ranked[1] = 1
            /\ \A i \in 1..Len(log) :
                  /\ R[i] = 3 =>
                        /\ \E k \in 1..(i - 1) : R[k] = 2
                        /\ SucceededBefore(log, i, "generateText") = 1
                  /\ R[i] = 4 =>
                        /\ \E k \in 1..(i - 1) : R[k] = 3
                        /\ SucceededBefore(log, i, "generateText") = 2
                  /\ (R[i] = 5 /\ log[i].arg = "done") =>
                        /\ \E k \in 1..(i - 1) : R[k] = 4
                        /\ SucceededBefore(log, i, "v0.chats") = 1
                  /\ R[i] = 6 => (i > 1 /\ R[i - 1] = 5)
            /\ jobs[j].status = "done" => ranked = <<1, 2, 3, 4, 5, 6>>

C18_Witness ==
    \E j, k \in DOMAIN jobs :
        /\ jobs[j].status = "done" /\ task[j].pc = "end"
        /\ jobs[k].status = "error"
        /\ Count(calls[k], "generateText") = 1
        /\ \E i \in 1..Len(calls[k]) :
              /\ calls[k][i].op = "settled" /\ calls[k][i].arg.call = "generateText"
              /\ ~calls[k][i].arg.threw /\ ~calls[k][i].arg.image

\* --------------------------------------------------------------- C19
\* event e records a collaborator call that failed: a generateText that
\* threw or returned no image, a v0 call that threw
FailedCall(e) ==
    /\ e.op = "settled" /\ e.arg.call \in {"generateText", "v0.chats"}
    /\ (e.arg.threw \/ (e.arg.call = "generateText" /\ ~e.arg.image))

C19_Inv ==
    \A j \in DOMAIN jobs :
        LET log == calls[j] IN
        /\ Cardinality({i \in 1..Len(log) : log[i] = Ev("generateText", "hero")}) <= 1
        /\ Cardinality({i \in 1..Len(log) : log[i] = Ev("generateText", "contact")}) <= 1
        /\ Cardinality({i \in 1..Len(log) : log[i].op \in SiteCalls}) <= 1
        /\ \A i \in 1..Len(log) :
              FailedCall(log[i]) =>
                  /\ jobs[j].status = "error"
                  /\ i < Len(log) /\ log[i + 1] = Ev("jobs.set", "error")
                  /\ \A k \in (i + 1)..Len(log) : log[k].op \notin CollaboratorCalls
        /\ (Resumed(j, "v0.chats") /\ last.out.kind = "return"
               /\ ~NonEmpty(ExtractSiteUrl(last.out.chat))) =>
              jobs[j].status = "error"

C19_Step ==
    \A j \in DOMAIN jobs : jobs[j].status = "error" => jobs'[j].status = "error"

\* C19: for every job the hero request, the contact request and the site
\* call are each issued at most once; when one of them fails (throws, or
\* returns no image) the very next effect of the task is the write of
\* status error, no collaborator call follows, and a site call that returns
\* no site URL also ends in error; a status of error never changes again.
C19_NoRetries == []C19_Inv /\ [][C19_Step]_vars

C19_Witness ==
    \E j, k \in DOMAIN jobs :
        /\ j # k
        /\ task[j].pc = "end" /\ jobs[j].status = "error"
        /\ \E i \in 1..Len(calls[j]) :
              FailedCall(calls[j][i]) /\ calls[j][i].arg.call = "v0.chats"
        /\ task[k].pc = "end" /\ jobs[k].status = "error"
        /\ \E i \in 1..Len(calls[k]) :
              FailedCall(calls[k][i]) /\ calls[k][i].arg.call = "generateText"
        /\ Count(calls[k], "generateText") = 2

\* --------------------------------------------------------------- C20
\* a task waiting for a collaborator has a running job; a task past its
\* try/catch has a terminal one
C20_Inv ==
    \A j \in DOMAIN jobs :
        /\ task[j].pc \in {"hero", "contact", "site"} => jobs[j].status = "running"
        /\ task[j].pc \in {"callback", "end"} => jobs[j].status \in Terminal
        /\ task[j].pc \in {"hero", "contact", "site", "callback", "end"}

\* job j is done or error and its callback fetch has been issued
Finished(j) ==
    /\ j \in DOMAIN jobs /\ jobs[j].status \in Terminal
    /\ Count(calls[j], "fetch") >= 1

\* C20: if every awaited image and site call eventually settles, every
\* accepted job eventually is done or error with its callback fetch issued;
\* and at no time has a task ended, or left its try/catch, with its job
\* still queued or running.
C20_EveryJobFinishes ==
    /\ []C20_Inv
    /\ \A j \in JobIds : (j \in DOMAIN jobs) ~> Finished(j)

C20_Witness ==
    \E j, k \in DOMAIN jobs :
        /\ Finished(j) /\ jobs[j].status = "done" /\ task[j].pc = "callback"
        /\ Finished(k) /\ jobs[k].status = "error" /\ task[k].pc = "callback"
        /\ SiteReturned(k)

\* --------------------------------------------------------------- C21
\* the task of job j awaits an image or site call
Waiting(j) == j \in DOMAIN task /\ task[j].pc \in {"hero", "contact", "site"}

C21_Inv ==
    \A j \in DOMAIN jobs :
        Waiting(j) => (jobs[j].status = "running" /\ Count(calls[j], "fetch") = 0)

\* as long as the awaited call of a job has not settled, nothing of the job changes
C21_Step ==
    \A j \in DOMAIN jobs :
        (Waiting(j) /\ ~(last'.ep = "none" /\ last' # NoExchange /\ last'.job = j)) =>
            (jobs'[j] = jobs[j] /\ task'[j] = task[j] /\ calls'[j] = calls[j])

\* C21: a job awaiting an image or site call is running with no callback
\* sent, and stays exactly so (record, task and effects unchanged) through
\* every step that is not the settling of its own call, hence forever if
\* the call never returns; meanwhile the other job, whose calls do settle,
\* always reaches done or error with its callback issued, though the calls
\* of the first may hang.
C21_HungJobStaysRunning ==
    /\ []C21_Inv
    /\ [][C21_Step]_vars
    /\ (ServedJob \in DOMAIN jobs) ~> Finished(ServedJob)

C21_Witness ==
    /\ Waiting(HungJob) /\ task[HungJob].pc = "site"
    /\ PollReached(last) /\ last.body.job_id = ServedJob /\ last.code = 200
    /\ last.reply.status = "done" /\ task[ServedJob].pc = "end"

\* --------------------------------------------------------------- C22
C22_Inv ==
    \A j \in DOMAIN jobs :
        jobs[j].status = "error" =>
            /\ jobs[j].site_url = Null /\ jobs[j].image_urls = NullImageUrls
            /\ jobs[j].chat_id = OrChat(task[j].chat_id, <<>>)
            /\ jobs[j].error # Null
            /\ \A p \in Payloads(j) :
                  /\ p.site_url = Null
                  /\ p.hero_image_url = Null /\ p.contact_image_url = Null

C22_Step ==
    \A j \in DOMAIN jobs :
        (jobs[j].status # "error" /\ jobs'[j].status = "error") =>
            jobs'[j] = [jobs[j] EXCEPT !.status = "error", !.error = jobs'[j].error]

\* C22: the step that moves a record to error changes its status and error
\* and nothing else; a record in error has site_url and image_urls null
\* (also when both images had been generated and the site step failed) and
\* the chat_id the caller supplied ("" if none), and its callback reports
\* site_url, hero_image_url and contact_image_url as null.
C22_ErrorFrame == []C22_Inv /\ [][C22_Step]_vars

C22_Witness ==
    \E j \in DOMAIN jobs :
        /\ jobs[j].status = "error" /\ ImageStepSucceeded(j)
        /\ task[j].chat_id = Padded(<<"a">>)
        /\ task[j].image_urls # NullImageUrls
        /\ Count(calls[j], "fetch") = 1

\* --------------------------------------------------------------- C23
\* the step to the next state resumed the task of job j
ResumedNext(j) == last'.ep = "none" /\ last' # NoExchange /\ last'.job = j

C23_Step ==
    \A j \in DOMAIN jobs' :
        IF j \notin DOMAIN jobs
        THEN Accepted(last') /\ last'.reply.job_id = j
        ELSE /\ jobs'[j].job_id = jobs[j].job_id /\ jobs'[j].row_id = jobs[j].row_id
             /\ (jobs'[j] # jobs[j] \/ task'[j] # task[j] \/ calls'[j] # calls[j]) =>
                   /\ ResumedNext(j)
                   /\ \A k \in DOMAIN jobs \ {j} :
                         jobs'[k] = jobs[k] /\ task'[k] = task[k] /\ calls'[k] = calls[k]

\* C23: a record enters the store only in the step that accepts the POST
\* answered with its job_id; afterwards its job_id and row_id never change,
\* and the record, the task and the effects of a job change only in steps
\* that resume that job's own task with the outcome of its own awaited
\* call, steps which leave every other job as it was.
C23_SingleWriter == [][C23_Step]_vars

C23_Witness ==
    \E j, k \in DOMAIN jobs :
        /\ Resumed(j, "v0.chats") /\ jobs[j].status = "done"
        /\ task[k].pc = "contact" /\ jobs[k].status = "running"
        /\ task[j].row_id # task[k].row_id

\* --------------------------------------------------------------- C24
\* C24 as stated: in the simulation variant the statuses written for a job
\* never pass from queued directly to done or error, and a job that is
\* done or error has been running.
C24_Original ==
    \A j \in DOMAIN jobs :
        LET w == StatusWrites(calls[j]) IN
        /\ \A i \in 1..(Len(w) - 1) : ~(w[i] = "queued" /\ w[i + 1] \in Terminal)
        /\ jobs[j].status \in Terminal => \E i \in 1..Len(w) : w[i] = "running"

\* --------------------------------------------------------------- C25
\* C25: every job's effects begin with the record stored as queued, the
\* response, and the write of running, before any collaborator call or
\* callback; these belong to the one step that accepts the request, so no
\* state holds a queued record and no poll is answered with one.
C25_QueuedNeverObserved ==
    /\ \A j \in DOMAIN jobs :
          LET log == calls[j] IN
          /\ jobs[j].status # "queued"
          /\ Len(log) >= 3
          /\ log[1] = Ev("jobs.set", "queued")
          /\ log[2].op = "res.json"
          /\ log[3] = Ev("jobs.set", "running")
    /\ (PollReached(last) /\ last.code = 200) => last.reply.status # "queued"
    /\ Accepted(last) => jobs[last.reply.job_id].status # "queued"

C25_Witness ==
    /\ PollReached(last) /\ last.code = 200
    /\ last.reply.status = "running"
    /\ Len(calls[last.body.job_id]) = 4
    /\ calls[last.body.job_id][4] = Ev("generateText", "hero")

====
